---- MODULE Spec2Model ----
(***************************************************************************)
(* A model of src/imag.py: LSB image steganography with an LFSR keystream, *)
(* a DNA (quaternary) re-encoding, a 32-bit length header and a fixed      *)
(* blue/red/green channel distribution.                                    *)
(*                                                                         *)
(* Strings of '0'/'1' are sequences over {0, 1}; a text is a sequence of   *)
(* code points; an image is a record [height, width, px] whose px is the   *)
(* row-major sequence of rows of pixels <<R, G, B>>.                       *)
(***************************************************************************)
EXTENDS Integers, Sequences, FiniteSets, TLC

VARIABLES
    input_image,    \* the carrier file at image_path (NoFile when missing)
    output_image,   \* the file at output_path (NoFile until embed saves it)
    pc,             \* position of the caller: "ready", "embedded", "extracted"
    em,             \* arguments, locals and outcome of the last embed call
    ex,             \* arguments, locals and outcome of the last extract call
    call            \* a call of one of the pure helper functions

vars == <<input_image, output_image, pc, em, ex, call>>

----------------------------------------------------------------------------
(* Bounds of the model *)

MaxTextLen == 1
MaxSeedLen == 2
MaxTotalLen == 70
MaxBits == 6
MaxDelimTextLen == 5

----------------------------------------------------------------------------
(* Python helpers *)

Min(a, b) == IF a < b THEN a ELSE b

Max(a, b) == IF a < b THEN b ELSE a

\* s[:n] for n >= 0
Take(s, n) == SubSeq(s, 1, Min(n, Len(s)))

\* s[n:] for n >= 0
Drop(s, n) == SubSeq(s, Min(n, Len(s)) + 1, Len(s))

\* s[a:b] for 0 <= a, 0 <= b
Slice(s, a, b) == SubSeq(s, Min(a, Len(s)) + 1, Min(b, Len(s)))

RECURSIVE ToBits(_)
\* the binary digits of n >= 0, most significant first, no leading zero
ToBits(n) == IF n < 2 THEN <<n>> ELSE Append(ToBits(n \div 2), n % 2)

\* format(n, '0<width>b'): zero-padded to at least width digits
Format(n, width) ==
    LET digits == ToBits(n)
    IN  [i \in 1..(Max(width, Len(digits)) - Len(digits)) |-> 0] \o digits

RECURSIVE BinToInt(_)
\* int(bits, 2)
BinToInt(bits) ==
    IF bits = <<>> THEN 0
    ELSE 2 * BinToInt(SubSeq(bits, 1, Len(bits) - 1)) + bits[Len(bits)]

Xor(a, b) == (a + b) % 2

\* ''.join(str(int(b1) ^ int(b2)) for b1, b2 in zip(x, y))
XorZip(x, y) == [i \in 1..Min(Len(x), Len(y)) |-> Xor(x[i], y[i])]

RECURSIVE Concat(_)
\* ''.join(parts)
Concat(parts) ==
    IF parts = <<>> THEN <<>>
    ELSE IF Len(parts) = 1 THEN parts[1]
    ELSE LET half == Len(parts) \div 2
         IN  Concat(SubSeq(parts, 1, half)) \o Concat(SubSeq(parts, half + 1, Len(parts)))

----------------------------------------------------------------------------
(* SECTION 1: data conversion *)

text_to_binary(text) == Concat([i \in 1..Len(text) |-> Format(text[i], 8)])

binary_to_text(binary) ==
    LET n == (Len(binary) + 7) \div 8
    IN  [k \in 1..n |-> BinToInt(Slice(binary, 8 * (k - 1), 8 * k))]

----------------------------------------------------------------------------
(* SECTION 1.5: channel distribution *)

\* a slip: green takes a quarter instead of the remainder
get_channel_distribution_quarter(total_len) ==
    <<total_len \div 2, total_len \div 4, total_len \div 4>>

get_channel_distribution(total_len) ==
    LET blue_len  == total_len \div 2
        red_len   == total_len \div 4
        green_len == total_len - blue_len - red_len
    IN  <<blue_len, red_len, green_len>>

----------------------------------------------------------------------------
(* SECTION 2: LFSR *)

lfsr_taps == <<1, 2>>

MaxTap == Max(lfsr_taps[1], lfsr_taps[2])

\* register[i] with Python's negative indices; defined iff PyInRange
PyInRange(register, i) == i < Len(register) /\ i >= 0 - Len(register)

PyGet(register, i) ==
    IF i >= 0 THEN register[i + 1] ELSE register[Len(register) + i + 1]

\* one pass of the loop body: the output bit, the feedback, the shift
LfsrStep(register, taps) ==
    IF ~PyInRange(register, -1)
    THEN [err |-> "IndexError", register |-> register, out |-> <<>>]
    ELSE
      LET output_bit  == PyGet(register, -1)
          tap_indices == [k \in 1..Len(taps) |-> Len(register) - taps[k]]
          RECURSIVE Feedback(_)
          Feedback(k) ==
              IF k = 0 THEN 0
              ELSE Xor(Feedback(k - 1), PyGet(register, tap_indices[k]))
      IN  IF \E k \in 1..Len(taps) : ~PyInRange(register, tap_indices[k])
          THEN [err |-> "IndexError", register |-> register, out |-> <<output_bit>>]
          ELSE [err |-> "none",
                register |-> <<Feedback(Len(taps))>>
                                \o SubSeq(register, 1, Len(register) - 1),
                out |-> <<output_bit>>]

RECURSIVE LfsrLoop(_, _, _)
\* for _ in range(length): the passes run in order, the first half then the rest
LfsrLoop(register, taps, length) ==
    IF length = 0 THEN [err |-> "none", register |-> register, out |-> <<>>]
    ELSE IF length = 1 THEN LfsrStep(register, taps)
    ELSE LET first == LfsrLoop(register, taps, length \div 2)
         IN  IF first.err # "none" THEN first
             ELSE LET rest == LfsrLoop(first.register, taps, length - length \div 2)
                  IN  [rest EXCEPT !.out = first.out \o @]

\* a slip: the loop runs one pass short
lfsr_short(seed, taps, length) ==
    LET run == LfsrLoop(seed, taps, Max(length - 1, 0))
    IN  [err |-> run.err, out |-> run.out]

\* the keystream (out), or the IndexError an empty register raises
lfsr(seed, taps, length) ==
    LET run == LfsrLoop(seed, taps, length)
    IN  [err |-> run.err, out |-> run.out]

----------------------------------------------------------------------------
(* SECTION 3: DNA encoding / decoding *)

DNA_MAP(pair) ==
    CASE pair = <<0, 0>> -> "A"
      [] pair = <<0, 1>> -> "C"
      [] pair = <<1, 0>> -> "G"
      [] pair = <<1, 1>> -> "T"

DNA_MAP_REVERSE(base) ==
    CASE base = "A" -> <<0, 0>>
      [] base = "C" -> <<0, 1>>
      [] base = "G" -> <<1, 0>>
      [] base = "T" -> <<1, 1>>

\* a slip: an odd trailing bit is dropped instead of padded
dna_encode_truncating(binary_data) ==
    [k \in 1..(Len(binary_data) \div 2) |->
        DNA_MAP(SubSeq(binary_data, 2 * k - 1, 2 * k))]

dna_encode(binary_data) ==
    LET padded == IF Len(binary_data) % 2 # 0
                  THEN Append(binary_data, 0) ELSE binary_data
    IN  [k \in 1..(Len(padded) \div 2) |-> DNA_MAP(SubSeq(padded, 2 * k - 1, 2 * k))]

dna_decode(dna_string) ==
    Concat([k \in 1..Len(dna_string) |-> DNA_MAP_REVERSE(dna_string[k])])

----------------------------------------------------------------------------
(* Images: the external codec's PixelGrid, as numpy holds it *)

NoFile == [exists |-> FALSE, height |-> 0, width |-> 0, px |-> <<>>]

\* img_array[:, :, c].flatten(): the row-major values of channel c (0 = R)
Flatten(image, c) ==
    [k \in 1..(image.height * image.width) |->
        image.px[((k - 1) \div image.width) + 1][((k - 1) % image.width) + 1][c + 1]]

\* format(val, '08b')[-1] for every value of channel c
ChannelLsbs(image, c) ==
    LET vals == Flatten(image, c)
    IN  [k \in 1..Len(vals) |-> LET b == Format(vals[k], 8) IN b[Len(b)]]

\* int(format(v, '08b')[:-1] + bit, 2)
WriteLsb(v, bit) ==
    LET v_bin == Format(v, 8)
    IN  BinToInt(Append(SubSeq(v_bin, 1, Len(v_bin) - 1), bit))

----------------------------------------------------------------------------
(* SECTION 4: embed *)

delimiter == <<36, 36, 69, 78, 68, 36, 36>>    \* "$$END$$"

header_len == 32

\* a slip: a channel exactly as long as the image is refused
OverCapacity_inclusive(blue_len, red_len, green_len, pixel_count) ==
    blue_len >= pixel_count \/ red_len >= pixel_count \/ green_len >= pixel_count

\* the per-channel capacity test of embed
OverCapacity(blue_len, red_len, green_len, pixel_count) ==
    blue_len > pixel_count \/ red_len > pixel_count \/ green_len > pixel_count

\* a slip: the pixel taken as [B, G, R]
EmbedPixel_bgr(pixel, k, red_data, green_data, blue_data) ==
    [pixel EXCEPT
        ![3] = IF k < Len(red_data)   THEN WriteLsb(@, red_data[k + 1])   ELSE @,
        ![2] = IF k < Len(green_data) THEN WriteLsb(@, green_data[k + 1]) ELSE @,
        ![1] = IF k < Len(blue_data)  THEN WriteLsb(@, blue_data[k + 1])  ELSE @]

\* one pixel of the embedding loop: the channels that still have data get its next bit
EmbedPixel(pixel, k, red_data, green_data, blue_data) ==
    [pixel EXCEPT
        ![1] = IF k < Len(red_data)   THEN WriteLsb(@, red_data[k + 1])   ELSE @,
        ![2] = IF k < Len(green_data) THEN WriteLsb(@, green_data[k + 1]) ELSE @,
        ![3] = IF k < Len(blue_data)  THEN WriteLsb(@, blue_data[k + 1])  ELSE @]

\* for y in range(height): for x in range(width): ...  The three cursors advance
\* together, so at the k-th pixel visited each cursor is k while its data lasts.
EmbedLoop(px, height, width, red_data, green_data, blue_data) ==
    [y \in 1..height |->
        [x \in 1..width |->
            EmbedPixel(px[y][x], (y - 1) * width + (x - 1),
                       red_data, green_data, blue_data)]]

\* dna_encode then dna_decode, then the 32-bit length header
FramePayload(encrypted_binary) ==
    LET dna_encoded   == dna_encode(encrypted_binary)
        final_payload == dna_decode(dna_encoded)
        payload_len   == Len(final_payload)
        len_header    == Format(payload_len, 32)
    IN  [dna_encoded |-> dna_encoded, final_payload |-> final_payload,
         payload_len |-> payload_len, data_to_embed |-> len_header \o final_payload]

EmbedIdle ==
    [status |-> "idle", secret_data |-> <<>>, lfsr_seed |-> <<>>, pixel_count |-> 0,
     keystream |-> <<>>, encrypted_binary |-> <<>>, payload_len |-> 0,
     data_to_embed |-> <<>>, dist |-> <<>>,
     blue_data |-> <<>>, red_data |-> <<>>, green_data |-> <<>>,
     new_img_array |-> NoFile]

\* embed(image_path, secret_data, output_path, lfsr_seed): its locals and outcome
EmbedRun(image, secret_data, lfsr_seed) ==
    LET args == [EmbedIdle EXCEPT !.secret_data = secret_data, !.lfsr_seed = lfsr_seed]
    IN
    IF ~image.exists THEN [args EXCEPT !.status = "NotFoundError"]
    ELSE
    LET pixel_count == image.height * image.width
        binary_data == text_to_binary(secret_data \o delimiter)
        loaded      == [args EXCEPT !.pixel_count = pixel_count]
    IN
    IF Len(lfsr_seed) < MaxTap THEN [loaded EXCEPT !.status = "ShortSeedError"]
    ELSE
    LET lfsr_keystream   == lfsr(lfsr_seed, lfsr_taps, Len(binary_data)).out
        encrypted_binary == XorZip(binary_data, lfsr_keystream)
        framed           == FramePayload(encrypted_binary)
        data_to_embed    == framed.data_to_embed
        total_len        == Len(data_to_embed)
        dist             == get_channel_distribution(total_len)
        blue_len         == dist[1]
        red_len          == dist[2]
        prepared == [loaded EXCEPT !.keystream = lfsr_keystream,
                                   !.encrypted_binary = encrypted_binary,
                                   !.payload_len = framed.payload_len,
                                   !.data_to_embed = data_to_embed,
                                   !.dist = dist]
    IN
    IF OverCapacity(dist[1], dist[2], dist[3], pixel_count)
    THEN [prepared EXCEPT !.status = "CapacityError"]
    ELSE
    LET blue_data  == Take(data_to_embed, blue_len)
        red_data   == Slice(data_to_embed, blue_len, blue_len + red_len)
        green_data == Drop(data_to_embed, blue_len + red_len)
        new_img_array == EmbedLoop(image.px, image.height, image.width,
                                   red_data, green_data, blue_data)
    IN  [prepared EXCEPT !.status = "Ok",
                         !.blue_data = blue_data,
                         !.red_data = red_data,
                         !.green_data = green_data,
                         !.new_img_array = [image EXCEPT !.px = new_img_array]]

----------------------------------------------------------------------------
(* SECTION 4: extract *)

\* haystack.find(needle): the lowest index of an occurrence, or -1
Find(haystack, needle) ==
    LET hits == {i \in 0..(Len(haystack) - Len(needle)) :
                    SubSeq(haystack, i + 1, i + Len(needle)) = needle}
    IN  IF hits = {} THEN -1 ELSE CHOOSE i \in hits : \A j \in hits : i <= j

\* a slip: find's -1 is not tested, and decrypted_binary[:-1] is decoded
RecoverMessage_unchecked(decrypted_binary) ==
    LET binary_delimiter == text_to_binary(delimiter)
        delimiter_pos    == Find(decrypted_binary, binary_delimiter)
        upto == IF delimiter_pos = -1 THEN Max(Len(decrypted_binary) - 1, 0)
                ELSE delimiter_pos
    IN  [status |-> "Ok", delimiter_pos |-> delimiter_pos, has_message |-> TRUE,
         secret_message |-> binary_to_text(Take(decrypted_binary, upto))]

\* step 5 of extract: the text before the delimiter, or None
RecoverMessage(decrypted_binary) ==
    LET binary_delimiter == text_to_binary(delimiter)
        delimiter_pos    == Find(decrypted_binary, binary_delimiter)
    IN  IF delimiter_pos # -1
        THEN [status |-> "Ok", delimiter_pos |-> delimiter_pos, has_message |-> TRUE,
              secret_message |-> binary_to_text(Take(decrypted_binary, delimiter_pos))]
        ELSE [status |-> "DelimiterNotFoundError", delimiter_pos |-> delimiter_pos,
              has_message |-> FALSE, secret_message |-> <<>>]

ExtractIdle ==
    [status |-> "idle", image_path |-> "none", lfsr_seed |-> <<>>, payload_len |-> 0,
     encrypted_payload |-> <<>>, keystream |-> <<>>, decrypted_binary |-> <<>>,
     delimiter_pos |-> -1, has_message |-> FALSE, secret_message |-> <<>>]

\* extract(image_path, lfsr_seed): its locals and outcome
ExtractRun(image, image_path, lfsr_seed) ==
    LET args == [ExtractIdle EXCEPT !.image_path = image_path, !.lfsr_seed = lfsr_seed]
    IN
    IF ~image.exists THEN [args EXCEPT !.status = "NotFoundError"]
    ELSE
    LET red_lsbs   == ChannelLsbs(image, 0)
        green_lsbs == ChannelLsbs(image, 1)
        blue_lsbs  == ChannelLsbs(image, 2)
        header     == get_channel_distribution(header_len)
        len_binary == Take(blue_lsbs, header[1]) \o Take(red_lsbs, header[2])
                        \o Take(green_lsbs, header[3])
    IN
    IF Len(len_binary) # 32 THEN [args EXCEPT !.status = "HeaderTruncatedError"]
    ELSE
    LET payload_len        == BinToInt(len_binary)
        total_embedded_len == header_len + payload_len
        total              == get_channel_distribution(total_embedded_len)
        reconstructed_data == Take(blue_lsbs, total[1]) \o Take(red_lsbs, total[2])
                                \o Take(green_lsbs, total[3])
        encrypted_payload  == Drop(reconstructed_data, header_len)
        generated          == lfsr(lfsr_seed, lfsr_taps, Len(encrypted_payload))
        read == [args EXCEPT !.payload_len = payload_len,
                             !.encrypted_payload = encrypted_payload,
                             !.keystream = generated.out]
    IN
    IF generated.err # "none" THEN [read EXCEPT !.status = generated.err]
    ELSE
    LET decrypted_binary == XorZip(encrypted_payload, generated.out)
        recovered        == RecoverMessage(decrypted_binary)
    IN  [read EXCEPT !.status = recovered.status,
                     !.decrypted_binary = decrypted_binary,
                     !.delimiter_pos = recovered.delimiter_pos,
                     !.has_message = recovered.has_message,
                     !.secret_message = recovered.secret_message]

----------------------------------------------------------------------------
(* Inputs *)

RECURSIVE SeqsOfLen(_, _)
SeqsOfLen(S, n) ==
    IF n = 0 THEN {<<>>}
    ELSE {Append(q, x) : q \in SeqsOfLen(S, n - 1), x \in S}

SeqsUpTo(S, n) == UNION {SeqsOfLen(S, k) : k \in 0..n}

\* 'H', and a character beyond one byte
Alphabet == {72, 256}

\* texts and seeds on which the header read back by extract equals the one written
ProbeTexts == {<<0, 0, 0, 0, 114>>, <<0, 0, 0, 0, 0, 13, 176, 0>>}

ProbeSeeds == {<<0, 0, 1>>, <<0, 1, 1, 0, 1>>}

Texts == SeqsUpTo(Alphabet, MaxTextLen) \cup ProbeTexts

Seeds == SeqsUpTo({0, 1}, MaxSeedLen) \cup ProbeSeeds

\* a carrier of the given shape: all black, or a ramp of distinct values
Carrier(height, width, kind) ==
    [exists |-> TRUE, height |-> height, width |-> width,
     px |-> [y \in 1..height |-> [x \in 1..width |->
                LET k == (y - 1) * width + (x - 1)
                IN  IF kind = "black" THEN <<0, 0, 0>>
                    ELSE <<(5 * k + 1) % 256, (3 * k + 2) % 256, (7 * k) % 256>>]]]

Carriers ==
    {NoFile, Carrier(1, 8, "ramp"), Carrier(4, 12, "black"),
     Carrier(8, 8, "ramp"), Carrier(8, 10, "black")}

CallIdle == [fn |-> "none"]

----------------------------------------------------------------------------
(* The caller: one embed, then extract from either file *)

Init ==
    /\ input_image \in Carriers
    /\ output_image = NoFile
    /\ pc = "ready"
    /\ em = EmbedIdle
    /\ ex = ExtractIdle
    /\ call = CallIdle

embed(secret_data, lfsr_seed) ==
    /\ pc = "ready"
    /\ LET run == EmbedRun(input_image, secret_data, lfsr_seed)
       IN  /\ em' = [run EXCEPT !.new_img_array = NoFile]
           /\ output_image' = IF run.status = "Ok" THEN run.new_img_array
                              ELSE output_image
    /\ pc' = "embedded"
    /\ UNCHANGED <<input_image, ex, call>>

extract(image_path, lfsr_seed) ==
    /\ pc = "embedded"
    /\ ex' = ExtractRun(IF image_path = "output" THEN output_image ELSE input_image,
                        image_path, lfsr_seed)
    /\ pc' = "extracted"
    /\ UNCHANGED <<input_image, output_image, em, call>>

Next ==
    \/ \E secret_data \in Texts, lfsr_seed \in Seeds : embed(secret_data, lfsr_seed)
    \/ \E image_path \in {"input", "output"}, lfsr_seed \in Seeds :
          extract(image_path, lfsr_seed)

Spec == Init /\ [][Next]_vars

----------------------------------------------------------------------------
(* The helper functions called on their own *)

PipelineIdle ==
    /\ input_image = NoFile
    /\ output_image = NoFile
    /\ pc = "helpers"
    /\ em = EmbedIdle
    /\ ex = ExtractIdle

PipelineUnchanged == UNCHANGED <<input_image, output_image, pc, em, ex>>

BitStrings == SeqsUpTo({0, 1}, MaxBits)

(* get_channel_distribution(total_len) *)

InitSplit ==
    /\ PipelineIdle
    /\ \E n \in 0..MaxTotalLen :
          call = [fn |-> "get_channel_distribution", total_len |-> n,
                  done |-> FALSE, ret |-> <<>>]

CallSplit ==
    /\ call.fn = "get_channel_distribution"
    /\ ~call.done
    /\ call' = [call EXCEPT !.done = TRUE,
                            !.ret = get_channel_distribution(call.total_len)]
    /\ PipelineUnchanged

SpecSplit == InitSplit /\ [][CallSplit]_vars

(* dna_encode, dna_decode and the header, as embed chains them *)

InitDna ==
    /\ PipelineIdle
    /\ \E b \in BitStrings :
          call = [fn |-> "dna", encrypted_binary |-> b, stage |-> "encrypted",
                  dna_encoded |-> <<>>, final_payload |-> <<>>,
                  payload_len |-> 0, data_to_embed |-> <<>>]

CallDnaEncode ==
    /\ call.fn = "dna" /\ call.stage = "encrypted"
    /\ call' = [call EXCEPT !.stage = "encoded",
                            !.dna_encoded = dna_encode(call.encrypted_binary)]
    /\ PipelineUnchanged

CallDnaDecode ==
    /\ call.fn = "dna" /\ call.stage = "encoded"
    /\ call' = [call EXCEPT !.stage = "decoded",
                            !.final_payload = dna_decode(call.dna_encoded)]
    /\ PipelineUnchanged

CallFrame ==
    /\ call.fn = "dna" /\ call.stage = "decoded"
    /\ LET framed == FramePayload(call.encrypted_binary)
       IN  call' = [call EXCEPT !.stage = "framed",
                                !.payload_len = framed.payload_len,
                                !.data_to_embed = framed.data_to_embed]
    /\ PipelineUnchanged

NextDna == CallDnaEncode \/ CallDnaDecode \/ CallFrame

SpecDna == InitDna /\ [][NextDna]_vars

(* lfsr and the XOR of embed (encrypt) and of extract (decrypt) *)

LongSeeds == {seed \in Seeds : Len(seed) >= MaxTap}

InitLfsr ==
    /\ PipelineIdle
    /\ \E seed \in LongSeeds, b \in BitStrings :
          call = [fn |-> "lfsr", lfsr_seed |-> seed, binary_data |-> b,
                  stage |-> "plain", err |-> "none", lfsr_keystream |-> <<>>,
                  encrypted_binary |-> <<>>, decrypted_binary |-> <<>>]

CallEncrypt ==
    /\ call.fn = "lfsr" /\ call.stage = "plain"
    /\ LET generated == lfsr(call.lfsr_seed, lfsr_taps, Len(call.binary_data))
       IN  call' = [call EXCEPT
                      !.stage = "encrypted",
                      !.err = generated.err,
                      !.lfsr_keystream = generated.out,
                      !.encrypted_binary = XorZip(call.binary_data, generated.out)]
    /\ PipelineUnchanged

CallDecrypt ==
    /\ call.fn = "lfsr" /\ call.stage = "encrypted"
    /\ LET generated == lfsr(call.lfsr_seed, lfsr_taps, Len(call.encrypted_binary))
       IN  call' = [call EXCEPT
                      !.stage = "decrypted",
                      !.err = generated.err,
                      !.decrypted_binary = XorZip(call.encrypted_binary, generated.out)]
    /\ PipelineUnchanged

NextLfsr == CallEncrypt \/ CallDecrypt

SpecLfsr == InitLfsr /\ [][NextLfsr]_vars

(* step 5 of extract on a decrypted bitstring *)

\* '$', 'E', 'N', 'D'
DelimAlphabet == {36, 69, 78, 68}

DelimTexts == SeqsUpTo(DelimAlphabet, MaxDelimTextLen)

InitRecover ==
    /\ PipelineIdle
    /\ \E text \in DelimTexts, terminated \in BOOLEAN :
          call = [fn |-> "recover", text |-> text, terminated |-> terminated,
                  decrypted_binary |->
                      text_to_binary(IF terminated THEN text \o delimiter ELSE text),
                  done |-> FALSE, status |-> "idle", delimiter_pos |-> -1,
                  has_message |-> FALSE, secret_message |-> <<>>]

CallRecover ==
    /\ call.fn = "recover"
    /\ ~call.done
    /\ LET recovered == RecoverMessage(call.decrypted_binary)
       IN  call' = [call EXCEPT !.done = TRUE,
                                !.status = recovered.status,
                                !.delimiter_pos = recovered.delimiter_pos,
                                !.has_message = recovered.has_message,
                                !.secret_message = recovered.secret_message]
    /\ PipelineUnchanged

SpecRecover == InitRecover /\ [][CallRecover]_vars

----------------------------------------------------------------------------
(* Properties *)

AllSingleByte(text) == \A i \in 1..Len(text) : text[i] <= 255

\* the header as a reader of the wire format takes it from an image: the first
\* hb blue, hr red and hg green LSBs, (hb, hr, hg) = split(32), as an integer
HeaderRead(image) ==
    LET header == get_channel_distribution(header_len)
    IN  BinToInt(Take(ChannelLsbs(image, 2), header[1])
                   \o Take(ChannelLsbs(image, 0), header[2])
                   \o Take(ChannelLsbs(image, 1), header[3]))

\* C1: round trip. After a successful embed of a single-byte text t with a seed
\* of at least 2 bits, extract from the output image with the same seed returns t.
C1_RoundTrip ==
    ( /\ pc = "extracted"
      /\ em.status = "Ok"
      /\ AllSingleByte(em.secret_data)
      /\ Len(em.lfsr_seed) >= 2
      /\ ex.image_path = "output"
      /\ ex.lfsr_seed = em.lfsr_seed )
    => /\ ex.status = "Ok"
       /\ ex.has_message
       /\ ex.secret_message = em.secret_data

\* C2: header self-description. In the image a successful embed saved, the
\* first 16 blue, 8 red and 8 green LSBs read as a big-endian integer are
\* payload_len, the bit length of the payload embed wrote after the header.
C2_HeaderSelfDescription ==
    em.status = "Ok" =>
        /\ get_channel_distribution(header_len) = <<16, 8, 8>>
        /\ HeaderRead(output_image) = em.payload_len

\* C3: capacity boundary. Once embed has computed split(32 + payload_len), it
\* ends in the capacity error exactly when one of the three counts exceeds the
\* pixel count, and then no pixel was written and no output image saved.
C3_CapacityBoundary ==
    em.dist # <<>> =>
        LET over == \E c \in 1..3 : em.dist[c] > em.pixel_count
        IN  /\ em.dist = get_channel_distribution(32 + em.payload_len)
            /\ em.pixel_count = input_image.height * input_image.width
            /\ over => /\ em.status = "CapacityError"
                       /\ output_image = NoFile
                       /\ em.blue_data = <<>> /\ em.red_data = <<>>
                       /\ em.green_data = <<>>
            /\ ~over => em.status = "Ok" /\ output_image.exists

C3_Witness ==
    /\ em.status = "CapacityError"
    /\ em.dist[1] > em.pixel_count
    /\ em.dist[2] <= em.pixel_count
    /\ output_image = NoFile

C5_ShortSeed ==
    /\ (pc # "ready" /\ input_image.exists /\ Len(em.lfsr_seed) < MaxTap)
         => /\ em.status = "ShortSeedError"
            /\ em.keystream = <<>>
            /\ output_image = NoFile
    /\ (pc = "extracted" /\ Len(ex.lfsr_seed) < MaxTap
          /\ ex.status \notin {"NotFoundError", "HeaderTruncatedError"})
         => /\ ex.status = "ShortSeedError"
            /\ ex.keystream = <<>>
            /\ ~ex.has_message

\* an extract from the image of a successful embed, with another seed
WrongSeedExtract ==
    /\ pc = "extracted"
    /\ em.status = "Ok"
    /\ ex.image_path = "output"
    /\ ex.lfsr_seed # em.lfsr_seed
    /\ Len(ex.lfsr_seed) >= 2

\* C6 as claimed: extract with a seed other than the one embedded with ends in
\* the delimiter-not-found failure and returns no text.
C6_WrongSeedFails ==
    WrongSeedExtract => (ex.status = "DelimiterNotFoundError" /\ ~ex.has_message)

\* C6 as amended: extract with a seed other than the one embedded with ends in
\* the delimiter-not-found failure and returns no text unless the delimiter's
\* 56-bit pattern occurs in the extracted payload XORed with that seed's
\* keystream, and when it occurs extract returns a message.
C6_WrongSeedAmended ==
    WrongSeedExtract =>
        LET pattern   == text_to_binary(delimiter)
            wrong     == lfsr(ex.lfsr_seed, lfsr_taps, Len(ex.encrypted_payload)).out
            decrypted == XorZip(ex.encrypted_payload, wrong)
            occurs    == \E i \in 0..(Len(decrypted) - Len(pattern)) :
                            SubSeq(decrypted, i + 1, i + Len(pattern)) = pattern
        IN  /\ Len(pattern) = 56
            /\ ~occurs => (ex.status = "DelimiterNotFoundError" /\ ~ex.has_message)
            /\ occurs => (ex.status = "Ok" /\ ex.has_message)

C6_Witness ==
    /\ WrongSeedExtract
    /\ ex.status = "DelimiterNotFoundError"
    /\ ex.keystream # lfsr(em.lfsr_seed, lfsr_taps, Len(ex.keystream)).out
    /\ Len(ex.keystream) >= 56

\* C7: embedder layout and frame. After a successful embed, the LSB of channel
\* c in the i-th pixel (row-major) is c_data[i] for i < len(c_data); every other
\* LSB and the upper 7 bits of every channel of every pixel are the carrier's.
C7_EmbedLayout ==
    em.status = "Ok" =>
        /\ output_image.height = input_image.height
        /\ output_image.width = input_image.width
        /\ \A c \in 0..2 :
              LET data == CASE c = 0 -> em.red_data
                            [] c = 1 -> em.green_data
                            [] c = 2 -> em.blue_data
                  new  == Flatten(output_image, c)
                  old  == Flatten(input_image, c)
              IN  /\ Len(data) <= Len(new)
                  /\ Len(new) = Len(old)
                  /\ \A i \in 1..Len(new) :
                        /\ i <= Len(data) => new[i] % 2 = data[i]
                        /\ i > Len(data) => new[i] % 2 = old[i] % 2
                        /\ new[i] \div 2 = old[i] \div 2

C7_Witness ==
    /\ em.status = "Ok"
    /\ em.secret_data = <<72>>
    /\ input_image.px[1][1] # <<0, 0, 0>>
    /\ Len(em.green_data) < Len(em.blue_data)
    /\ Len(em.blue_data) < em.pixel_count
    /\ output_image # input_image

\* C8: delimiter recovery. When the decrypted bitstring is text_to_binary(t +
\* "$$END$$") for a single-byte text t, the delimiter is first found at bit
\* 8 * len(t) and the text returned is t; when the pattern does not occur, no
\* text is returned.
C8_DelimiterRecovery ==
    (call.fn = "recover" /\ call.done) =>
        /\ (call.terminated /\ AllSingleByte(call.text))
             => /\ call.delimiter_pos = 8 * Len(call.text)
                /\ call.has_message
                /\ call.secret_message = call.text
        /\ call.delimiter_pos = -1 => ~call.has_message

\* C9: quaternary stage. dna_decode(dna_encode(b)) is b when len(b) is even and
\* b followed by one 0 bit when it is odd; the payload_len embed writes into the
\* header is even and is len(b) rounded up to the next even number.
C9_DnaRoundTrip ==
    call.fn = "dna" =>
        LET b == call.encrypted_binary
        IN  /\ call.stage \in {"decoded", "framed"} =>
                call.final_payload = IF Len(b) % 2 = 0 THEN b ELSE b \o <<0>>
            /\ call.stage = "framed" =>
                /\ call.payload_len % 2 = 0
                /\ call.payload_len = Len(b) + (Len(b) % 2)
                /\ Len(call.data_to_embed) = 32 + call.payload_len
                /\ BinToInt(Take(call.data_to_embed, 32)) = call.payload_len
                /\ Drop(call.data_to_embed, 32) = call.final_payload

C9_Witness ==
    /\ call.fn = "dna"
    /\ call.stage = "framed"
    /\ call.encrypted_binary = <<1, 0, 1>>
    /\ call.final_payload = <<1, 0, 1, 0>>
    /\ call.payload_len = 4

\* C10: keystream symmetry. For a seed of at least 2 bits, lfsr(s, [1, 2],
\* len(b)) has exactly len(b) bits, and XORing b with it and the result with it
\* again gives back b, with the same length.
C10_KeystreamSymmetry ==
    (call.fn = "lfsr" /\ call.stage # "plain") =>
        /\ call.err = "none"
        /\ Len(call.lfsr_keystream) = Len(call.binary_data)
        /\ Len(call.encrypted_binary) = Len(call.binary_data)
        /\ call.stage = "decrypted" => call.decrypted_binary = call.binary_data

C10_Witness ==
    /\ call.fn = "lfsr"
    /\ call.stage = "decrypted"
    /\ Len(call.binary_data) = MaxBits
    /\ call.encrypted_binary # call.binary_data
    /\ call.decrypted_binary = call.binary_data

====
